---- MODULE Spec2Model ----
(***************************************************************************)
(* Model of the Cantabular query examples: a GraphQL response describing   *)
(* an N-dimensional table (dimension metadata plus a flat row-major array  *)
(* of counts) is re-expanded into one labelled CSV row per cell.           *)
(*                                                                         *)
(* Two programs are modelled:                                              *)
(*   "simple"   golang/cmd/cantabular-query-simple/main.go: decode the     *)
(*              whole document into Go structs, then Table.ForEachRow.     *)
(*   "streamed" golang/cmd/cantabular-query-streamed/main.go: a pull       *)
(*              decoder walks the document and writes rows as the values   *)
(*              arrive (graphqlJSONToCSV).                                  *)
(*                                                                         *)
(* Documents are JSON values whose objects have pairwise distinct member   *)
(* names, as GraphQL response maps do.                                     *)
(***************************************************************************)
EXTENDS Integers, Sequences, FiniteSets, TLC

\* ------------------------------------------------------------------ bounds

\* Longest dimension list of the generated tables.
MaxDims == 2
\* Largest category count of a generated dimension.
MaxCount == 3
\* How many values beyond product(counts) a generated table may carry.
MaxExtra == 1

\* ------------------------------------------------------------ JSON values

JNull == [t |-> "null"]
JObj(ms) == [t |-> "obj", m |-> ms]
JArr(es) == [t |-> "arr", e |-> es]
JStr(s) == [t |-> "str", s |-> s]
Member(n, v) == [name |-> n, val |-> v]

\* Sequences over S without repetition, of every length.
Perms(S) ==
  { s \in UNION { [1..n -> S] : n \in 0..Cardinality(S) } :
      \A a, b \in DOMAIN s : a # b => s[a] # s[b] }

RECURSIVE Product(_)
Product(counts) ==
  IF counts = <<>> THEN 1 ELSE Head(counts) * Product(Tail(counts))

\* ------------------------------------------------- number <-> text (strconv)

Digit == <<"0", "1", "2", "3", "4", "5", "6", "7", "8", "9">>

\* strconv.Itoa: the canonical decimal text of n.
RECURSIVE Itoa(_)
Itoa(n) ==
  IF n < 0 THEN "-" \o Itoa(-n)
  ELSE IF n < 10 THEN Digit[n + 1]
  ELSE Itoa(n \div 10) \o Digit[(n % 10) + 1]

\* The integers whose text the generated documents can carry.
TokenRange == 0..(10 + Product([j \in 1..MaxDims |-> MaxCount]) + MaxExtra)

\* encoding/json into an int: the literal must be the text of an integer.
IsIntToken(tok) == \E n \in TokenRange : Itoa(n) = tok
Atoi(tok) == CHOOSE n \in TokenRange : Itoa(n) = tok

\* ------------------------------------------------------ generated documents

Letter == <<"a", "b", "c", "d">>
VarLabel == <<"A", "B", "C", "D">>

\* Dimension j (1-based) with n categories: labels a0, a1, ... for j = 1.
Dimension(j, n) ==
  [Count |-> n,
   Categories |-> [k \in 1..n |->
                    [Code |-> Itoa(k - 1), Label |-> Letter[j] \o Itoa(k - 1)]],
   Variable |-> [Name |-> Letter[j], Label |-> VarLabel[j]]]

DimList(counts) == [j \in 1..Len(counts) |-> Dimension(j, counts[j])]

\* Every list of at most MaxDims counts in 0..MaxCount.
CountLists == UNION { [1..n -> 0..MaxCount] : n \in 0..MaxDims }

\* The flat values array: n number tokens "10", "11", ...
ValueTokens(n) == [k \in 1..n |-> Itoa(9 + k)]

TableDoc(ms) ==
  JObj(<< Member("data", JObj(<< Member("dataset",
        JObj(<< Member("table", JObj(ms)) >>)) >>)) >>)

\* Family 1: well-ordered tables of every shape, with too few, exactly
\* enough and too many values.
ShapeDocs ==
  UNION { { TableDoc(<< Member("dimensions", JArr(DimList(c))),
                        Member("values", JArr(ValueTokens(n))) >>) :
              n \in 0..(Product(c) + MaxExtra) } : c \in CountLists }

\* The tables of family 1 that have one dimension.
OneDimDocs ==
  { TableDoc(<< Member("dimensions", JArr(DimList(<<c>>))),
                Member("values", JArr(ValueTokens(n))) >>) :
      c \in 0..MaxCount, n \in 0..(MaxCount + MaxExtra) }
    \cap ShapeDocs

\* Family 2: the members of the table object in every order and subset.
TableMemberValues ==
  [dimensions : {JNull, JArr(<<>>), JArr(DimList(<<2>>))},
   values : {JNull, JArr(<<>>), JArr(ValueTokens(2))},
   error : {JNull, JStr(""), JStr("blocked")},
   extra : {JStr("x")}]

OrderDocs ==
  { TableDoc([k \in DOMAIN order |-> Member(order[k], v[order[k]])]) :
      order \in Perms({"dimensions", "values", "error", "extra"}),
      v \in TableMemberValues }

\* Family 3: the envelope, data and dataset objects in every order and
\* subset, around a few tables.
GoodTable ==
  JObj(<< Member("dimensions", JArr(DimList(<<2>>))),
          Member("values", JArr(ValueTokens(2))),
          Member("error", JNull) >>)
BlockedTable ==
  JObj(<< Member("dimensions", JNull),
          Member("values", JNull),
          Member("error", JStr("blocked")) >>)

DatasetValues ==
  {JNull} \cup
  { JObj([k \in DOMAIN order |->
           Member(order[k], IF order[k] = "table" THEN tv ELSE JStr("x"))]) :
      order \in Perms({"table", "extra"}),
      tv \in {JNull, GoodTable, BlockedTable} }

DataValues ==
  {JNull} \cup
  { JObj([k \in DOMAIN order |->
           Member(order[k], IF order[k] = "dataset" THEN dv ELSE JStr("x"))]) :
      order \in Perms({"dataset", "extra"}), dv \in DatasetValues }

ErrorsValues ==
  {JNull, JArr(<<>>), JArr(<<[Message |-> ""]>>), JArr(<<[Message |-> "e1"]>>),
   JArr(<<[Message |-> "e1"], [Message |-> "e2"]>>)}

EnvelopeDocs ==
  {JNull} \cup
  { JObj([k \in DOMAIN order |->
           Member(order[k],
                  CASE order[k] = "data" -> dv
                    [] order[k] = "errors" -> ev
                    [] OTHER -> JStr("x"))]) :
      order \in Perms({"data", "errors", "extra"}),
      dv \in DataValues, ev \in ErrorsValues }

\* Family 4: the byte source ends early.  The end of the stream is marked
\* where it falls: as the token behind the last value that arrived, or as
\* the member behind the last member that arrived; nothing follows it.
Eof == "<EOF>"
EofMember == Member(Eof, JNull)
Cut(ms, j) == SubSeq(ms, 1, j) \o <<EofMember>>

CutInValues ==
  { TableDoc(<< Member("dimensions", JArr(DimList(<<c>>))),
                Member("values", JArr(ValueTokens(k) \o <<Eof>>)) >>) :
      c \in 0..MaxCount, k \in 0..(MaxCount + MaxExtra) }

CutInObjects ==
  LET dataset == <<Member("table", GoodTable)>>
      data == <<Member("dataset", JObj(dataset))>>
      envelope == <<Member("errors", JArr(<<>>)), Member("data", JObj(data))>>
  IN { TableDoc(Cut(GoodTable.m, j)) : j \in 0..3 }
       \cup { JObj(<<Member("data", JObj(<<Member("dataset",
                  JObj(Cut(dataset, j)))>>))>>) : j \in 0..1 }
       \cup { JObj(<<Member("data", JObj(Cut(data, j)))>>) : j \in 0..1 }
       \cup { JObj(Cut(envelope, j)) : j \in 0..2 }

CutDocs == CutInValues \cup CutInObjects

\* Family 5: one dimension whose count is any number, whatever the number
\* of its categories.
MismatchDocs ==
  { TableDoc(<< Member("dimensions",
                       JArr(<<[Dimension(1, n) EXCEPT !.Count = c]>>)),
                Member("values", JArr(ValueTokens(k))) >>) :
      n \in 1..2, c \in 0..MaxCount, k \in 0..(MaxCount + MaxExtra) }

Docs ==
  ShapeDocs \cup OrderDocs \cup EnvelopeDocs \cup CutDocs \cup MismatchDocs

Progs == {"simple", "streamed"}

\* How os.Stdout behaves under a run: it takes everything, or the write
\* that the csv.Writer's buffer spills on its at-th Write call fails, or the
\* write made by Flush fails.
SinkOK == [fails |-> "never", at |-> 0]
\* The latest Write call on which a generated output fails.
MaxFailAt == 3
FaultySinks ==
  { [fails |-> "write", at |-> k] : k \in 1..MaxFailAt }
    \cup { [fails |-> "flush", at |-> 0] }

\* ------------------------------------------------------------------- state

VARIABLES
  jobs,        \* the runs still to be made: a sequence of [prog, doc]
  results,     \* what the finished runs wrote and how they ended
  prog,        \* the program of the current run
  doc,         \* the response body of the current run
  pc,          \* where the current run stands
  exit,        \* "running", "ok" (exit status 0) or "fail" (non-zero)
  stderr,      \* the message reported on failure
  sink,        \* how the output (os.Stdout) of the current run behaves
  cw,          \* the csv.Writer: whether it exists, its buffered rows, and
               \* its sticky error
  w,           \* the rows that reached the output (os.Stdout)
  gqlResp,     \* simple: the decoded Response
  dimIndices,  \* simple: the counters of ForEachRow
  i,           \* simple: the loop index of ForEachRow
  dec,         \* streamed: the decoder's position [env, tab, val]
  dims,        \* streamed: table.Dimensions, nil until decoded
  ti           \* streamed: the table iterator's counters

vars == <<jobs, results, prog, doc, sink, pc, exit, stderr, cw, w,
          gqlResp, dimIndices, i, dec, dims, ti>>

simpleVars == <<gqlResp, dimIndices, i>>
streamedVars == <<dec, dims, ti>>
jobVars == <<jobs, results, prog, doc, sink>>

\* A written row: its fields, and which Write call produced it.
HeaderRow(fields) == [kind |-> "header", fields |-> fields]
DataRow(fields) == [kind |-> "data", fields |-> fields]

NoWriter == [open |-> FALSE, buf |-> <<>>, err |-> FALSE]
\* csv.NewWriter(os.Stdout): nothing buffered, no error.
NewWriter == [open |-> TRUE, buf |-> <<>>, err |-> FALSE]
NilDims == [nil |-> TRUE, d |-> <<>>]
ZeroTable == [Dimensions |-> <<>>, Values |-> <<>>, Error |-> ""]
ZeroResponse == [Data |-> [Dataset |-> [Table |-> ZeroTable]], Errors |-> <<>>]
Zeros(n) == [j \in 1..n |-> 0]

Max(S) == CHOOSE a \in S : \A b \in S : b <= a

\* ------------------------------------------------ simple: decoding (main)

\* The value json.Decode sees for a struct field: the last member of that
\* name, null when the object or the member is missing.
FieldOf(v, name) ==
  LET get[x \in {v}] ==
        IF x.t # "obj" THEN JNull
        ELSE LET at == { k \in DOMAIN x.m : x.m[k].name = name }
             IN IF at = {} THEN JNull ELSE x.m[Max(at)].val
  IN get[v]

\* json.Decode accepts null or the field's own JSON type.
Fits(v, type) == v.t \in {"null", type}

\* The stream ends inside the object v, behind one of its members.
HasEof(v) == v.t = "obj" /\ \E k \in DOMAIN v.m : v.m[k].name = Eof

\* The stream ends before the document does.
Truncated(d) ==
  LET data == FieldOf(d, "data")
      dataset == FieldOf(data, "dataset")
      table == FieldOf(dataset, "table")
      values == FieldOf(table, "values")
  IN \/ HasEof(d) \/ HasEof(data) \/ HasEof(dataset) \/ HasEof(table)
     \/ values.t = "arr" /\ \E k \in DOMAIN values.e : values.e[k] = Eof

\* Mutant: Decode's error for an early end of the stream is not looked at.
DecodeOKUnlessMistyped(d) ==
  LET data == FieldOf(d, "data")
      dataset == FieldOf(data, "dataset")
      table == FieldOf(dataset, "table")
  IN /\ Fits(d, "obj") /\ Fits(data, "obj") /\ Fits(dataset, "obj")
     /\ Fits(table, "obj") /\ Fits(FieldOf(d, "errors"), "arr")
     /\ Fits(FieldOf(table, "dimensions"), "arr")
     /\ Fits(FieldOf(table, "error"), "str")
     /\ Fits(FieldOf(table, "values"), "arr")

\* Decode returns an error (line 191) when the document is cut short or a
\* value does not fit its field.
DecodeOK(d) ==
  LET data == FieldOf(d, "data")
      dataset == FieldOf(data, "dataset")
      table == FieldOf(dataset, "table")
      values == FieldOf(table, "values")
  IN /\ ~Truncated(d)
     /\ Fits(d, "obj") /\ Fits(data, "obj") /\ Fits(dataset, "obj")
     /\ Fits(table, "obj") /\ Fits(FieldOf(d, "errors"), "arr")
     /\ Fits(FieldOf(table, "dimensions"), "arr")
     /\ Fits(FieldOf(table, "error"), "str")
     /\ Fits(values, "arr")
     /\ values.t = "arr" => \A k \in DOMAIN values.e : IsIntToken(values.e[k])

DecodeResponse(d) ==
  LET table == FieldOf(FieldOf(FieldOf(d, "data"), "dataset"), "table")
      dimensions == FieldOf(table, "dimensions")
      values == FieldOf(table, "values")
      error == FieldOf(table, "error")
      errors == FieldOf(d, "errors")
  IN [Data |-> [Dataset |-> [Table |->
        [Dimensions |-> IF dimensions.t = "arr" THEN dimensions.e ELSE <<>>,
         Values |-> IF values.t = "arr"
                    THEN [k \in DOMAIN values.e |->
                            IF IsIntToken(values.e[k]) THEN Atoi(values.e[k])
                            ELSE 0]
                    ELSE <<>>,
         Error |-> IF error.t = "str" THEN error.s ELSE ""]]],
      Errors |-> IF errors.t = "arr" THEN errors.e ELSE <<>>]

\* ------------------------------------------------ simple: Table methods

\* Mutant: the trailing "count" column is forgotten.
HeaderWithoutCount(t) ==
  [j \in 1..Len(t.Dimensions) |-> t.Dimensions[j].Variable.Label]

\* Table.Header: the variable labels, then "count".
Header(t) ==
  [j \in 1..Len(t.Dimensions) |-> t.Dimensions[j].Variable.Label]
    \o <<"count">>

\* populateRow indexes Categories[k] for every counter k: a runtime panic
\* when k is out of range.
InRange(t, indices) ==
  \A j \in DOMAIN indices : indices[j] < Len(t.Dimensions[j].Categories)

\* Mutant: the count is always taken from the first value.
populateRowFirstValue(t, indices, n) ==
  [Categories |-> [j \in DOMAIN indices |->
                     t.Dimensions[j].Categories[indices[j] + 1]],
   Count |-> t.Values[1]]

\* Table.populateRow: the Row for counters `indices` (0-based) and value n.
populateRow(t, indices, n) ==
  [Categories |-> [j \in DOMAIN indices |->
                     t.Dimensions[j].Categories[indices[j] + 1]],
   Count |-> t.Values[n + 1]]

\* The carry loop of ForEachRow from counter j (1-based here) leftwards.
RECURSIVE Carry(_, _, _)
Carry(idx, counts, j) ==
  IF j < 1 THEN idx
  ELSE LET inc == [idx EXCEPT ![j] = @ + 1]
       IN IF inc[j] < counts[j] THEN inc
          ELSE Carry([inc EXCEPT ![j] = 0], counts, j - 1)

\* How many times the body of the carry loop runs from counter j leftwards.
RECURSIVE CarrySteps(_, _, _)
CarrySteps(idx, counts, j) ==
  IF j < 1 THEN 0
  ELSE IF idx[j] + 1 < counts[j] THEN 1
  ELSE 1 + CarrySteps(idx, counts, j - 1)

\* Mutant: the carry runs from the first counter rightwards (column-major).
RECURSIVE CarryRight(_, _, _)
CarryRight(idx, counts, j) ==
  IF j > Len(idx) THEN idx
  ELSE LET inc == [idx EXCEPT ![j] = @ + 1]
       IN IF inc[j] < counts[j] THEN inc
          ELSE CarryRight([inc EXCEPT ![j] = 0], counts, j + 1)

AdvanceFirstFastest(idx, counts) == CarryRight(idx, counts, 1)

\* Mutant: a counter that reaches its count is not set back to zero.
RECURSIVE CarryNoReset(_, _, _)
CarryNoReset(idx, counts, j) ==
  IF j < 1 THEN idx
  ELSE LET inc == [idx EXCEPT ![j] = @ + 1]
       IN IF inc[j] < counts[j] THEN inc
          ELSE CarryNoReset(inc, counts, j - 1)

AdvanceNoReset(idx, counts) == CarryNoReset(idx, counts, Len(idx))

\* Mutant: the counters stay on the last cell instead of wrapping.
AdvanceSaturating(idx, counts) ==
  IF Carry(idx, counts, Len(idx)) = Zeros(Len(idx)) THEN idx
  ELSE Carry(idx, counts, Len(idx))

\* One pass of ForEachRow's inner loop: advance the counters by one cell.
Advance(idx, counts) == Carry(idx, counts, Len(idx))

\* main's callback: the labels of the row's categories, then the count.
Columns(row) ==
  [j \in DOMAIN row.Categories |-> row.Categories[j].Label]
    \o <<Itoa(row.Count)>>

\* --------------------------------------------------------- run bookkeeping

\* A run ends: stop with the given status and message.
Stop(status, msg) ==
  /\ pc' = "done"
  /\ exit' = status
  /\ stderr' = msg

\* Mutant: only the header is handed on; the data rows are held back.
WriteRowHeaderOnly(c, row, snk) ==
  IF row.kind = "data" THEN c ELSE [c EXCEPT !.buf = Append(@, row)]

\* cw.Write(row), whose result the programs discard (simple line 211 and
\* 219, streamed lines 207 and 214): the row is buffered; once a write to
\* the output has failed the error stays and the row is dropped.
WriteRow(c, row, snk) ==
  IF c.err THEN c
  ELSE IF snk.fails = "write" /\ snk.at = Len(c.buf) + 1
  THEN [c EXCEPT !.err = TRUE]
  ELSE [c EXCEPT !.buf = Append(@, row)]

\* Mutant: the deferred function forgets cw.Flush.
FlushSkipped(c, out, snk) == [cw |-> c, w |-> out]

\* cw.Flush (simple line 205, streamed line 197): the buffered rows reach
\* the output `out`, unless an error is pending or this write fails.
FlushSink(c, out, snk) ==
  IF c.err \/ snk.fails = "flush"
  THEN [cw |-> [c EXCEPT !.err = TRUE], w |-> out]
  ELSE [cw |-> [c EXCEPT !.buf = <<>>], w |-> out \o c.buf]

\* Mutant: the deferred function does not look at cw.Error().
SinkErrorIgnored(c) == FALSE

\* cw.Error() != nil (simple line 206, streamed line 198).
SinkError(c) == c.err

\* The deferred function of simple lines 204-209 and streamed lines
\* 196-201, run when the function returns (status "ok") or while a panic
\* unwinds (status "fail"): Flush, then a pending writer error ends the run
\* with that error.
Flush(status, msg) ==
  LET f == FlushSink(cw, w, sink)
  IN /\ cw' = f.cw
     /\ w' = f.w
     /\ IF SinkError(f.cw) THEN Stop("fail", "write error")
                           ELSE Stop(status, msg)

\* The process starts on the next response.
Launch ==
  /\ pc = "idle"
  /\ jobs # <<>>
  /\ prog' = Head(jobs).prog
  /\ doc' = Head(jobs).doc
  /\ sink' = Head(jobs).sink
  /\ jobs' = Tail(jobs)
  /\ pc' = "start"
  /\ exit' = "running"
  /\ stderr' = ""
  /\ cw' = NoWriter
  /\ w' = <<>>
  /\ gqlResp' = ZeroResponse
  /\ dimIndices' = <<>>
  /\ i' = 0
  /\ dec' = [env |-> 0, tab |-> 0, val |-> 0]
  /\ dims' = NilDims
  /\ ti' = <<>>
  /\ UNCHANGED results

\* The process has exited: its output and status are on record.
Finish ==
  /\ pc = "done"
  /\ results' = Append(results,
       [prog |-> prog, doc |-> doc, w |-> w, exit |-> exit, stderr |-> stderr])
  /\ pc' = "idle"
  /\ UNCHANGED <<jobs, prog, doc, sink, exit, stderr, cw, w,
                 simpleVars, streamedVars>>

\* ------------------------------------------------------- simple: main

\* main, lines 189-193: decode the whole response; log.Fatal on error.
JsonDecode ==
  /\ pc = "start" /\ prog = "simple"
  /\ IF DecodeOK(doc)
     THEN /\ gqlResp' = DecodeResponse(doc)
          /\ pc' = "decoded"
          /\ UNCHANGED <<exit, stderr>>
     ELSE /\ Stop("fail", "json: cannot unmarshal")
          /\ UNCHANGED gqlResp
  /\ UNCHANGED <<jobVars, cw, w, dimIndices, i, streamedVars>>

\* main, lines 196-211: log.Fatalf on GraphQL errors (no deferred function
\* is registered yet); otherwise create the writer and write the header.
CheckErrors ==
  /\ pc = "decoded"
  /\ IF Len(gqlResp.Errors) > 0
     THEN /\ Stop("fail", "Unexpected error")
          /\ UNCHANGED cw
     ELSE /\ cw' = WriteRow(NewWriter,
                      HeaderRow(Header(gqlResp.Data.Dataset.Table)), sink)
          /\ pc' = "ForEachRow"
          /\ UNCHANGED <<exit, stderr>>
  /\ UNCHANGED <<jobVars, w, simpleVars, streamedVars>>

\* ForEachRow, lines 73-90: panic on a table error (main's deferred Flush
\* still runs), otherwise set the counters to zero.
ForEachRowEnter ==
  /\ pc = "ForEachRow"
  /\ LET t == gqlResp.Data.Dataset.Table
     IN IF t.Error # ""
        THEN /\ Flush("fail", t.Error)
             /\ UNCHANGED <<dimIndices, i>>
        ELSE /\ dimIndices' = Zeros(Len(t.Dimensions))
             /\ i' = 0
             /\ pc' = "loop"
             /\ UNCHANGED <<exit, stderr, cw, w>>
  /\ UNCHANGED <<jobVars, gqlResp, streamedVars>>

\* ForEachRow, lines 92-105, one iteration: populate the row, call back
\* (main writes it), advance the counters.
ForEachRowStep ==
  /\ pc = "loop"
  /\ LET t == gqlResp.Data.Dataset.Table
     IN /\ i < Len(t.Values)
        /\ IF InRange(t, dimIndices)
           THEN /\ cw' = WriteRow(cw,
                      DataRow(Columns(populateRow(t, dimIndices, i))), sink)
                /\ dimIndices' =
                     Advance(dimIndices, [j \in DOMAIN t.Dimensions |->
                                            t.Dimensions[j].Count])
                /\ i' = i + 1
                /\ UNCHANGED <<pc, exit, stderr, w>>
           ELSE /\ Flush("fail", "index out of range")
                /\ UNCHANGED <<dimIndices, i>>
  /\ UNCHANGED <<jobVars, gqlResp, streamedVars>>

\* ForEachRow and main return: the deferred Flush runs.
ForEachRowReturn ==
  /\ pc = "loop"
  /\ i = Len(gqlResp.Data.Dataset.Table.Values)
  /\ Flush("ok", "")
  /\ UNCHANGED <<jobVars, simpleVars, streamedVars>>

\* ------------------------------------------- streamed: the decoder cursor

\* The object the cursor is inside at each level (jsonstream.Decoder walks
\* the document forwards; dec holds the index of the member being decoded).
CurData == doc.m[dec.env].val
CurDataset == CurData.m[1].val
CurTable == CurDataset.m[1].val
CurValues == CurTable.m[dec.tab].val

\* dec.More() at each level.
MoreEnvelope == dec.env <= Len(doc.m)
MoreTable == dec.tab <= Len(CurTable.m)
MoreValues == dec.val <= Len(CurValues.e)

\* The cursor finds the end of the stream where member k of ms, or the
\* token tok, should be: the decoder panics.
EofAt(ms, k) == k \in DOMAIN ms /\ ms[k].name = Eof
UnexpectedEOF == "unexpected EOF"

\* dec.StartObjectComposite / StartArrayComposite: false on a null.
StartsObject(v) == v.t = "obj"
StartsArray(v) == v.t = "arr"

\* ------------------------------------------ streamed: the table iterator

\* Dimensions.NewIterator: one counter per dimension, all zero.
NewIterator(ds) == Zeros(Len(ds))

\* Iterator.CategoryAtColumn(c) for every column: defined while every
\* counter indexes an existing category.
IterInRange(ds, idx) ==
  \A j \in DOMAIN idx : idx[j] < Len(ds[j].Categories)

CategoryAtColumn(ds, idx, c) == ds[c].Categories[idx[c] + 1]

\* Iterator.Next: the odometer step, the last counter fastest.
RECURSIVE IterCarry(_, _, _)
IterCarry(idx, ds, j) ==
  IF j < 1 THEN idx
  ELSE IF idx[j] + 1 < ds[j].Count THEN [idx EXCEPT ![j] = @ + 1]
  ELSE IterCarry([idx EXCEPT ![j] = 0], ds, j - 1)

IterNext(idx, ds) == IterCarry(idx, ds, Len(idx))

\* ------------------------------------------------ streamed: pure helpers

\* decodeErrorsPanicIfAny, lines 154-160: the messages joined by newlines,
\* a separator only once the builder is non-empty.
RECURSIVE JoinMessages(_, _)
JoinMessages(sb, errs) ==
  IF errs = <<>> THEN sb
  ELSE JoinMessages((IF sb # "" THEN sb \o "\n" ELSE sb) \o Head(errs).Message,
                    Tail(errs))

ErrorsText(v) == IF v.t = "arr" THEN JoinMessages("", v.e) ELSE ""

\* decodeValues, lines 203-207: the header columns.
StreamHeader(ds) == [j \in 1..Len(ds) |-> ds[j].Variable.Label] \o <<"count">>

\* decodeValues, lines 210-214: the labels at the iterator's position, then
\* the number's text as it stands in the document.
StreamColumns(ds, idx, tok) ==
  [j \in 1..Len(ds) |-> CategoryAtColumn(ds, idx, j).Label] \o <<tok>>

\* Mutant: the nil check before the values is dropped.
DimsNeverMissing(ds) == FALSE

\* decodeTableFields, line 181: values may only follow decoded dimensions.
DimsMissing(ds) == ds.nil

\* Mutant: the error case is written as the default case.
TableSwitchDefaultError(field) ==
  IF field \in {"dimensions", "values"} THEN field ELSE "error"

\* decodeTableFields, lines 171-188: the case a member name selects; a name
\* with no case selects none and the loop goes on to the next member.
TableSwitch(field) ==
  IF field \in {"dimensions", "error", "values"} THEN field ELSE "none"

\* decodeDataFields, lines 130-139: the first member must be `name`.
MatchesName(obj, name) == obj.m # <<>> /\ obj.m[1].name = name

\* ---------------------------------------------------- streamed: actions

\* graphqlJSONToCSV, lines 110-113.
StartEnvelope ==
  /\ pc = "start" /\ prog = "streamed"
  /\ IF StartsObject(doc)
     THEN /\ pc' = "envelope"
          /\ dec' = [dec EXCEPT !.env = 1]
          /\ UNCHANGED <<exit, stderr>>
     ELSE /\ Stop("fail", "No JSON object found in response")
          /\ UNCHANGED dec
  /\ UNCHANGED <<jobVars, cw, w, simpleVars, dims, ti>>

\* graphqlJSONToCSV, lines 114-124: dispatch on the next member's name.
EnvelopeField ==
  /\ pc = "envelope"
  /\ MoreEnvelope
  /\ LET mem == doc.m[dec.env]
     IN CASE EofAt(doc.m, dec.env) ->
               /\ Stop("fail", UnexpectedEOF)
               /\ UNCHANGED dec
          [] mem.name = "data" /\ StartsObject(mem.val) ->
               /\ pc' = "data"
               /\ UNCHANGED <<dec, exit, stderr>>
          [] mem.name = "errors" /\ ErrorsText(mem.val) # "" ->
               /\ Stop("fail", ErrorsText(mem.val))
               /\ UNCHANGED dec
          [] OTHER ->
               /\ dec' = [dec EXCEPT !.env = @ + 1]
               /\ UNCHANGED <<pc, exit, stderr>>
  /\ UNCHANGED <<jobVars, cw, w, simpleVars, dims, ti>>

\* graphqlJSONToCSV, line 125, and main's return.
EnvelopeEnd ==
  /\ pc = "envelope"
  /\ ~MoreEnvelope
  /\ Stop("ok", "")
  /\ UNCHANGED <<jobVars, cw, w, simpleVars, streamedVars>>

\* decodeDataFields, lines 129-145, up to the call of decodeTableFields:
\* "dataset" and then "table" must come first in their objects.
DecodeDataFields ==
  /\ pc = "data"
  /\ IF EofAt(CurData.m, 1)
     THEN /\ Stop("fail", UnexpectedEOF)
          /\ UNCHANGED dec
     ELSE IF ~MatchesName(CurData, "dataset")
     THEN /\ Stop("fail", "Expected dataset")
          /\ UNCHANGED dec
     ELSE IF ~StartsObject(CurDataset)
     THEN /\ Stop("fail", "dataset object expected but null found")
          /\ UNCHANGED dec
     ELSE IF EofAt(CurDataset.m, 1)
     THEN /\ Stop("fail", UnexpectedEOF)
          /\ UNCHANGED dec
     ELSE IF ~MatchesName(CurDataset, "table")
     THEN /\ Stop("fail", "Expected table")
          /\ UNCHANGED dec
     ELSE IF StartsObject(CurTable)
     THEN /\ pc' = "table"
          /\ dec' = [dec EXCEPT !.tab = 1]
          /\ UNCHANGED <<exit, stderr>>
     ELSE IF HasEof(CurDataset) \/ HasEof(CurData)
     THEN /\ Stop("fail", UnexpectedEOF)
          /\ UNCHANGED dec
     ELSE /\ pc' = "envelope"
          /\ dec' = [dec EXCEPT !.env = @ + 1]
          /\ UNCHANGED <<exit, stderr>>
  /\ UNCHANGED <<jobVars, cw, w, simpleVars, dims, ti>>

\* decodeTableFields, lines 170-189: dispatch on the next member's name;
\* for a values array, decodeValues lines 194-209 (writer, header, iterator).
TableField ==
  /\ pc = "table"
  /\ MoreTable
  /\ LET mem == CurTable.m[dec.tab]
         case == TableSwitch(mem.name)
         next == [dec EXCEPT !.tab = @ + 1]
     IN CASE EofAt(CurTable.m, dec.tab) ->
               /\ Stop("fail", UnexpectedEOF)
               /\ UNCHANGED <<dec, dims, cw, ti>>
          [] case = "dimensions" ->
               /\ dims' = IF StartsArray(mem.val)
                          THEN [nil |-> FALSE, d |-> mem.val.e] ELSE dims
               /\ dec' = next
               /\ UNCHANGED <<pc, exit, stderr, cw, ti>>
          [] case = "error" /\ mem.val.t = "str" ->
               /\ Stop("fail", "Table blocked: " \o mem.val.s)
               /\ UNCHANGED <<dec, dims, cw, ti>>
          [] case = "values" /\ DimsMissing(dims) ->
               /\ Stop("fail", "values received before dimensions")
               /\ UNCHANGED <<dec, dims, cw, ti>>
          [] case = "values" /\ ~DimsMissing(dims)
               /\ StartsArray(mem.val) ->
               /\ cw' = WriteRow(NewWriter,
                                 HeaderRow(StreamHeader(dims.d)), sink)
               /\ ti' = NewIterator(dims.d)
               /\ dec' = [dec EXCEPT !.val = 1]
               /\ pc' = "values"
               /\ UNCHANGED <<exit, stderr, dims>>
          [] OTHER ->
               /\ dec' = next
               /\ UNCHANGED <<pc, exit, stderr, dims, cw, ti>>
  /\ UNCHANGED <<jobVars, w, simpleVars>>

\* decodeTableFields returns; decodeDataFields (lines 142-144) and
\* graphqlJSONToCSV (line 119) close the table, dataset and data objects,
\* skipping what is left of them.
TableEnd ==
  /\ pc = "table"
  /\ ~MoreTable
  /\ IF HasEof(CurDataset) \/ HasEof(CurData)
     THEN /\ Stop("fail", UnexpectedEOF)
          /\ UNCHANGED dec
     ELSE /\ pc' = "envelope"
          /\ dec' = [dec EXCEPT !.env = @ + 1]
          /\ UNCHANGED <<exit, stderr>>
  /\ UNCHANGED <<jobVars, cw, w, simpleVars, dims, ti>>

\* decodeValues, lines 209-216, one iteration: build the row at the
\* iterator's position, decode the number, write the row, advance.  A
\* panic unwinds through the deferred Flush of lines 196-201.
DecodeValue ==
  /\ pc = "values"
  /\ MoreValues
  /\ IF CurValues.e[dec.val] = Eof
     THEN /\ Flush("fail", UnexpectedEOF)
          /\ UNCHANGED <<dec, ti>>
     ELSE IF IterInRange(dims.d, ti)
     THEN /\ cw' = WriteRow(cw,
                      DataRow(StreamColumns(dims.d, ti, CurValues.e[dec.val])),
                      sink)
          /\ ti' = IterNext(ti, dims.d)
          /\ dec' = [dec EXCEPT !.val = @ + 1]
          /\ UNCHANGED <<pc, exit, stderr, w>>
     ELSE /\ Flush("fail", "index out of range")
          /\ UNCHANGED <<dec, ti>>
  /\ UNCHANGED <<jobVars, simpleVars, dims>>

\* decodeValues returns: the deferred function (lines 196-201) flushes and
\* panics on a writer error; otherwise decodeTableFields closes the array
\* (line 186) and goes on.
ValuesEnd ==
  /\ pc = "values"
  /\ ~MoreValues
  /\ LET f == FlushSink(cw, w, sink)
     IN /\ w' = f.w
        /\ IF SinkError(f.cw)
           THEN /\ cw' = f.cw
                /\ Stop("fail", "write error")
                /\ UNCHANGED dec
           ELSE /\ cw' = NoWriter
                /\ pc' = "table"
                /\ dec' = [dec EXCEPT !.tab = @ + 1, !.val = 0]
                /\ UNCHANGED <<exit, stderr>>
  /\ UNCHANGED <<jobVars, simpleVars, dims, ti>>

\* ----------------------------------------------------------- specifications

\* One run per job: every document on a sound output, and the
\* one-dimension tables of family 1 on every faulty output.
Jobs ==
  { <<[prog |-> p, doc |-> d, sink |-> SinkOK]>> : p \in Progs, d \in Docs }
    \cup { <<[prog |-> p, doc |-> d, sink |-> s]>> :
              p \in Progs, d \in OneDimDocs, s \in FaultySinks }

Init ==
  /\ jobs \in Jobs
  /\ results = <<>>
  /\ prog = "simple"
  /\ doc = JNull
  /\ sink = SinkOK
  /\ pc = "idle"
  /\ exit = "running"
  /\ stderr = ""
  /\ cw = NoWriter
  /\ w = <<>>
  /\ gqlResp = ZeroResponse
  /\ dimIndices = <<>>
  /\ i = 0
  /\ dec = [env |-> 0, tab |-> 0, val |-> 0]
  /\ dims = NilDims
  /\ ti = <<>>

Next ==
  \/ Launch
  \/ Finish
  \/ JsonDecode
  \/ CheckErrors
  \/ ForEachRowEnter
  \/ ForEachRowStep
  \/ ForEachRowReturn
  \/ StartEnvelope
  \/ EnvelopeField
  \/ EnvelopeEnd
  \/ DecodeDataFields
  \/ TableField
  \/ TableEnd
  \/ DecodeValue
  \/ ValuesEnd

Spec == Init /\ [][Next]_vars

\* ------------------------------------------------------ views for the claims

\* The table a document describes, by member name.
TableOf(d) == FieldOf(FieldOf(FieldOf(d, "data"), "dataset"), "table")
DimsOf(d) ==
  LET v == FieldOf(TableOf(d), "dimensions")
  IN IF v.t = "arr" THEN v.e ELSE <<>>
ValuesOf(d) ==
  LET v == FieldOf(TableOf(d), "values")
  IN IF v.t = "arr" THEN v.e ELSE <<>>
CountsOf(d) == [j \in DOMAIN DimsOf(d) |-> DimsOf(d)[j].Count]
ErrorsOf(d) ==
  LET v == FieldOf(d, "errors")
  IN IF v.t = "arr" THEN v.e ELSE <<>>

\* Every row handed to the csv.Writer so far, flushed or not.
Written == w \o cw.buf
DataRows(rows) == SelectSeq(rows, LAMBDA r : r.kind = "data")
Fields(rows) == [k \in DOMAIN rows |-> rows[k].fields]

\* The index of the category of dimension `dim` that carries `label`.
LabelIndex(dim, label) ==
  CHOOSE k \in 0..(Len(dim.Categories) - 1) : dim.Categories[k + 1].Label = label

\* The tuple of category indices a data row stands for.
RowIndices(row, ds) == [j \in DOMAIN ds |-> LabelIndex(ds[j], row.fields[j])]

AllTuples(counts) ==
  { t \in [DOMAIN counts -> 0..MaxCount] : \A j \in DOMAIN counts : t[j] < counts[j] }

\* a precedes b when the first counter in which they differ is smaller in a.
LexLess(a, b) ==
  \E j \in DOMAIN a : a[j] < b[j] /\ \A l \in 1..(j - 1) : a[l] = b[l]

\* The j-th mixed-radix digit of k, the last dimension least significant.
Stride(counts, j) == Product(SubSeq(counts, j + 1, Len(counts)))
DigitOf(k, counts, j) == (k \div Stride(counts, j)) % counts[j]

Positive(counts) == \A j \in DOMAIN counts : counts[j] >= 1

\* --------------------------------------------------------------------- C1
C1_Pre(d) ==
  /\ DimsOf(d) # <<>>
  /\ Positive(CountsOf(d))
  /\ Len(ValuesOf(d)) = Product(CountsOf(d))

\* C1: for a non-empty dimension list with every count >= 1 and exactly
\* product(counts) values, a completed run has emitted every tuple of
\* category indices exactly once, in the order in which the last
\* dimension's index changes fastest and the first slowest.
C1_OdometerOrder ==
  (pc = "done" /\ exit = "ok" /\ C1_Pre(doc)) =>
    LET rows == DataRows(w)
        visited == [k \in DOMAIN rows |-> RowIndices(rows[k], DimsOf(doc))]
    IN /\ Len(visited) = Product(CountsOf(doc))
       /\ \A t \in AllTuples(CountsOf(doc)) :
            Cardinality({ k \in DOMAIN visited : visited[k] = t }) = 1
       /\ \A k \in 1..(Len(visited) - 1) : LexLess(visited[k], visited[k + 1])

C1_Witness ==
  /\ pc = "done" /\ exit = "ok" /\ prog = "simple"
  /\ C1_Pre(doc)
  /\ CountsOf(doc) = <<2, 3>>
  /\ Len(DataRows(w)) = 6

\* --------------------------------------------------------------------- C2
ExampleDoc ==
  TableDoc(<< Member("dimensions", JArr(DimList(<<2, 3>>))),
              Member("values", JArr(ValueTokens(6))) >>)

ExampleRows ==
  << <<"a0", "b0", "10">>, <<"a0", "b1", "11">>, <<"a0", "b2", "12">>,
     <<"a1", "b0", "13">>, <<"a1", "b1", "14">>, <<"a1", "b2", "15">> >>

\* C2: the k-th data row (0-based, k < product(counts)) carries, for each
\* dimension j, the label of the category whose index is the j-th
\* mixed-radix digit of k, followed by values[k]; counts [2,3] with
\* values 10..15 give (a0,b0,10) ... (a1,b2,15).
C2_RowIsDigitsOfK ==
  LET rows == DataRows(Written)
      ds == DimsOf(doc)
      counts == CountsOf(doc)
  IN /\ \A k \in 0..(Len(rows) - 1) :
          k < Product(counts) =>
            rows[k + 1].fields =
              [j \in DOMAIN ds |->
                 ds[j].Categories[DigitOf(k, counts, j) + 1].Label]
                \o <<ValuesOf(doc)[k + 1]>>
     /\ (pc = "done" /\ doc = ExampleDoc /\ sink = SinkOK) =>
          (exit = "ok" /\ Fields(DataRows(w)) = ExampleRows)

C2_Witness ==
  /\ pc = "done" /\ doc = ExampleDoc /\ prog = "simple" /\ sink = SinkOK
  /\ Len(DataRows(w)) = 6

\* --------------------------------------------------------------------- C3
\* C3: with a non-empty dimension list of positive counts, a run fed
\* exactly product(counts) values ends cleanly, and a run fed one value
\* fewer or one value more ends in a reported error.
C3_MismatchIsReported ==
  (/\ pc = "done"
   /\ doc \in ShapeDocs
   /\ DimsOf(doc) # <<>>
   /\ Positive(CountsOf(doc))) =>
    LET n == Len(ValuesOf(doc))
        p == Product(CountsOf(doc))
    IN /\ n = p => exit = "ok"
       /\ n \in {p - 1, p + 1} => exit = "fail"

\* --------------------------------------------------------------------- C4
HasErrorMessage(d) ==
  \E k \in DOMAIN ErrorsOf(d) : ErrorsOf(d)[k].Message # ""

\* C4: when the top-level errors array is non-empty (here: carries a
\* message), the run ends in a reported failure and no data row has reached
\* the output, wherever the data member stands.
C4_ErrorsSuppressRows ==
  (pc = "done" /\ HasErrorMessage(doc)) =>
    (exit = "fail" /\ DataRows(w) = <<>>)

\* --------------------------------------------------------------------- C5
TableErrorOf(d) ==
  LET v == FieldOf(TableOf(d), "error")
  IN IF v.t = "str" THEN v.s ELSE ""

\* C5: when the table carries a non-empty error string, wherever the error
\* member sits, no data row is ever written, value iteration never starts,
\* and the run ends in a reported failure.
C5_BlockedTableWritesNoRow ==
  (pc # "idle" /\ TableErrorOf(doc) # "") =>
    /\ DataRows(Written) = <<>>
    /\ pc \notin {"loop", "values"}
    /\ pc = "done" => exit = "fail"

\* --------------------------------------------------------------------- C6
MemberIndex(obj, name) ==
  IF obj.t # "obj" \/ \A k \in DOMAIN obj.m : obj.m[k].name # name THEN 0
  ELSE CHOOSE k \in DOMAIN obj.m : obj.m[k].name = name

ValuesBeforeDimensions(d) ==
  LET vi == MemberIndex(TableOf(d), "values")
      di == MemberIndex(TableOf(d), "dimensions")
  IN vi > 0 /\ (di = 0 \/ vi < di)

\* C6: in the streamed program nothing is written and no value is decoded
\* before the dimensions member has been decoded; a table whose values
\* member comes before its dimensions member (or has none) ends in a
\* fatal error with nothing written.
C6_DimensionsFirst ==
  prog = "streamed" =>
    /\ (Written # <<>> \/ dec.val > 0 \/ pc = "values") => ~dims.nil
    /\ (pc = "done" /\ ValuesBeforeDimensions(doc)) =>
         (exit = "fail" /\ w = <<>>)

C6_Witness ==
  /\ prog = "streamed" /\ pc = "done"
  /\ ValuesBeforeDimensions(doc)
  /\ MemberIndex(TableOf(doc), "dimensions") > 0
  /\ stderr = "values received before dimensions"

\* --------------------------------------------------------------------- C9
\* C9: whenever anything has been written, the first row is the header
\* (the dimensions' variable labels in order, then "count"), no later row
\* is a header, and every later row is a data row of len(dimensions)+1
\* fields.
C9_HeaderFirstAndOnce ==
  LET rows == Written
      ds == DimsOf(doc)
  IN rows # <<>> =>
       /\ rows[1].kind = "header"
       /\ rows[1].fields = [j \in DOMAIN ds |-> ds[j].Variable.Label] \o <<"count">>
       /\ \A k \in 2..Len(rows) :
            rows[k].kind = "data" /\ Len(rows[k].fields) = Len(ds) + 1

C9_Witness ==
  /\ pc = "done" /\ prog = "streamed" /\ exit = "ok"
  /\ Len(w) = 7
  /\ Len(DimsOf(doc)) = 2

\* -------------------------------------------------------------------- C10
HasEmptyDimension(d) == \E j \in DOMAIN DimsOf(d) : DimsOf(d)[j].Count = 0

\* C10: with an empty dimension list and a single value the output is the
\* header "count" and one count-only data row; with a dimension of count 0
\* at most one row is emitted and no category lookup is out of range.
C10_EmptyShapes ==
  (pc = "done" /\ doc \in ShapeDocs) =>
    /\ (DimsOf(doc) = <<>> /\ Len(ValuesOf(doc)) = 1) =>
         Fields(w) = << <<"count">>, <<"10">> >>
    /\ HasEmptyDimension(doc) =>
         (Len(DataRows(w)) <= 1 /\ stderr # "index out of range")

\* ------------------------------------------------- two runs, two documents

Levels == {"envelope", "data", "dataset", "table"}

ObjAt(d, lvl) ==
  CASE lvl = "envelope" -> d
    [] lvl = "data" -> FieldOf(d, "data")
    [] lvl = "dataset" -> FieldOf(FieldOf(d, "data"), "dataset")
    [] lvl = "table" -> TableOf(d)

SetField(obj, name, v) ==
  JObj([k \in DOMAIN obj.m |->
          IF obj.m[k].name = name THEN Member(name, v) ELSE obj.m[k]])

\* d with the object at level lvl replaced by o.
PutAt(d, lvl, o) ==
  CASE lvl = "envelope" -> o
    [] lvl = "data" -> SetField(d, "data", o)
    [] lvl = "dataset" ->
         SetField(d, "data", SetField(ObjAt(d, "data"), "dataset", o))
    [] lvl = "table" ->
         SetField(d, "data",
           SetField(ObjAt(d, "data"), "dataset",
             SetField(ObjAt(d, "dataset"), "table", o)))

\* obj with a member of an unrecognized name put at position pos.
InsertAt(obj, pos) ==
  JObj(SubSeq(obj.m, 1, pos - 1) \o <<Member("added", JStr("x"))>>
         \o SubSeq(obj.m, pos, Len(obj.m)))

Inserted(d, lvl, pos) == PutAt(d, lvl, InsertAt(ObjAt(d, lvl), pos))

InsertPlaces(d) ==
  { pl \in Levels \X (1..5) :
      ObjAt(d, pl[1]).t = "obj" /\ pl[2] <= Len(ObjAt(d, pl[1]).m) + 1 }

\* obj with its members in the order sigma.
Reordered(obj, sigma) == JObj([k \in DOMAIN obj.m |-> obj.m[sigma[k]]])

Reorderings(d, lvl) ==
  IF ObjAt(d, lvl).t # "obj" THEN {}
  ELSE LET n == Len(ObjAt(d, lvl).m)
       IN { PutAt(d, lvl, Reordered(ObjAt(d, lvl), sigma)) :
              sigma \in { f \in [1..n -> 1..n] :
                            \A a, b \in 1..n : a # b => f[a] # f[b] } }

\* The documents whose variants are run: those with no skipped member yet.
NoExtra(d) ==
  \A lvl \in Levels :
    ObjAt(d, lvl).t = "obj" =>
      \A k \in DOMAIN ObjAt(d, lvl).m : ObjAt(d, lvl).m[k].name # "extra"

PairDocs == { d \in OrderDocs \cup EnvelopeDocs \cup {ExampleDoc} : NoExtra(d) }

Variants(d) ==
  ({ Inserted(d, pl[1], pl[2]) : pl \in InsertPlaces(d) }
     \cup Reorderings(d, "envelope") \cup Reorderings(d, "table")) \ {d}

PairJobs ==
  UNION { { << [prog |-> "streamed", doc |-> d, sink |-> SinkOK],
               [prog |-> "streamed", doc |-> v, sink |-> SinkOK] >> :
              v \in Variants(d) } :
          d \in PairDocs }

InitPair ==
  /\ jobs \in PairJobs
  /\ results = <<>>
  /\ prog = "streamed"
  /\ doc = JNull
  /\ sink = SinkOK
  /\ pc = "idle"
  /\ exit = "running"
  /\ stderr = ""
  /\ cw = NoWriter
  /\ w = <<>>
  /\ gqlResp = ZeroResponse
  /\ dimIndices = <<>>
  /\ i = 0
  /\ dec = [env |-> 0, tab |-> 0, val |-> 0]
  /\ dims = NilDims
  /\ ti = <<>>

NextPair ==
  \/ Launch
  \/ Finish
  \/ StartEnvelope
  \/ EnvelopeField
  \/ EnvelopeEnd
  \/ DecodeDataFields
  \/ TableField
  \/ TableEnd
  \/ DecodeValue
  \/ ValuesEnd

\* The streamed program run on a document and then on a variant of it.
SpecPair == InitPair /\ [][NextPair]_vars

BothDone == Len(results) = 2
SameResult == results[1].exit = results[2].exit /\ results[1].w = results[2].w

C8_OrderIrrelevant ==
  (/\ BothDone
   /\ results[2].doc \in Reorderings(results[1].doc, "envelope")
                           \cup Reorderings(results[1].doc, "table")
   /\ ~ValuesBeforeDimensions(results[1].doc)
   /\ ~ValuesBeforeDimensions(results[2].doc)) => SameResult

\* ------------------------------------------- both programs, one document

BothJobs ==
  { << [prog |-> "simple", doc |-> d, sink |-> SinkOK],
       [prog |-> "streamed", doc |-> d, sink |-> SinkOK] >> : d \in Docs }

InitBoth ==
  /\ jobs \in BothJobs
  /\ results = <<>>
  /\ prog = "simple"
  /\ doc = JNull
  /\ sink = SinkOK
  /\ pc = "idle"
  /\ exit = "running"
  /\ stderr = ""
  /\ cw = NoWriter
  /\ w = <<>>
  /\ gqlResp = ZeroResponse
  /\ dimIndices = <<>>
  /\ i = 0
  /\ dec = [env |-> 0, tab |-> 0, val |-> 0]
  /\ dims = NilDims
  /\ ti = <<>>

\* The simple program and then the streamed program run on one document.
SpecBoth == InitBoth /\ [][Next]_vars

\* -------------------------------------------------------------------- C11
\* C11: on every response document the simple (in-memory) program and the
\* streamed program write the same sequence of rows and end with the same
\* success/failure outcome.
C11_SameRowsSameOutcome ==
  (BothDone /\ results[1].doc = results[2].doc) => SameResult

\* -------------------------------------------------------------------- C12
\* The Write calls a completed run over a family-1 table makes: the header
\* and one row per value.
WritesOf(d) == 1 + Len(ValuesOf(d))

\* C12: a failed write does not end the run at that call and reports
\* nothing yet; the writer's error stays set through every later write
\* until the run ends; it is reported, as a failure of the run, in the step
\* that flushes; and a run in which a write or the flush failed never ends
\* as a success.
C12_StickyWriteFailure ==
  [][/\ (~cw.err /\ cw'.err /\ sink.fails = "write") =>
          (pc' \in {"ForEachRow", "loop", "values"} /\ exit' = "running"
             /\ stderr' = "")
     /\ (cw.err /\ pc # "idle") => cw'.err
     /\ (cw.err /\ exit = "running") => (stderr = "" /\ pc' \in {"loop", "values", "done"})
     /\ (stderr' = "write error" /\ stderr # "write error") =>
          (pc \in {"ForEachRow", "loop", "values"} /\ pc' = "done")
     /\ (pc' = "done" /\ cw'.err) =>
          (exit' = "fail" /\ stderr' = "write error")
     /\ (/\ pc' = "done" /\ doc \in ShapeDocs
         /\ Positive(CountsOf(doc))
         /\ \/ sink.fails = "flush"
            \/ sink.fails = "write" /\ sink.at <= WritesOf(doc)) =>
          exit' = "fail"]_vars

C12_Witness ==
  /\ prog = "streamed" /\ pc = "values" /\ exit = "running"
  /\ sink = [fails |-> "write", at |-> 2]
  /\ cw.err
  /\ dec.val = 4

\* -------------------------------------------------------------------- C13
\* C13: when the byte source ends before the document does, at any member
\* boundary or inside the values array, the run does not stall before its
\* end and its end is a reported failure, never a success with the rows
\* that happened to arrive.
C13_TruncationIsReported ==
  (pc # "idle" /\ Truncated(doc)) =>
    /\ pc # "done" => ENABLED Next
    /\ pc = "done" => (exit = "fail" /\ stderr # "")

C13_Witness ==
  /\ prog = "streamed" /\ pc = "done"
  /\ doc \in CutInValues
  /\ stderr = UnexpectedEOF
  /\ Len(DataRows(w)) = 2

\* -------------------------------------------------------------------- C14
\* C14: in the streamed program, whenever the loop of decodeValues is about
\* to decode value k+1 (k values decoded so far), the rows of values 1..k
\* have all been handed to the writer, each carrying its own value, and the
\* iterator has been advanced exactly k times: no decoded value is held
\* back.
C14_NoValueHeldBack ==
  (prog = "streamed" /\ pc = "values") =>
    LET k == dec.val - 1
        rows == DataRows(cw.buf)
        counts == [j \in DOMAIN dims.d |-> dims.d[j].Count]
    IN /\ w = <<>>
       /\ ~cw.err =>
            /\ Len(rows) = k
            /\ \A n \in 1..k : rows[n].fields[Len(dims.d) + 1] = CurValues.e[n]
       /\ Positive(counts) =>
            ti = [j \in DOMAIN dims.d |-> DigitOf(k, counts, j)]

C14_Witness ==
  /\ prog = "streamed" /\ pc = "values"
  /\ dec.val = 8
  /\ Len(DataRows(cw.buf)) = 7
  /\ Len(dims.d) = 2

\* -------------------------------------------------------------------- C15
\* What a run still has ahead of it, as a number: the members of the
\* envelope not yet reached weigh EnvelopeWeight each, those of the table
\* TableWeight, the values one; the simple program has its values and four
\* steps around them.
TableWeight == Product([j \in 1..MaxDims |-> MaxCount]) + MaxExtra + 4
EnvelopeWeight == 8 * TableWeight

Remaining ==
  IF prog = "simple"
  THEN CASE pc = "start" -> Len(ValuesOf(doc)) + 4
         [] pc = "decoded" -> Len(gqlResp.Data.Dataset.Table.Values) + 3
         [] pc = "ForEachRow" -> Len(gqlResp.Data.Dataset.Table.Values) + 2
         [] pc = "loop" -> Len(gqlResp.Data.Dataset.Table.Values) - i + 1
         [] OTHER -> 0
  ELSE LET members == IF doc.t = "obj" THEN Len(doc.m) ELSE 0
           outer == (members + 1 - dec.env) * EnvelopeWeight
       IN CASE pc = "start" -> (members + 2) * EnvelopeWeight
            [] pc = "envelope" -> outer + EnvelopeWeight - 1
            [] pc = "data" -> outer + EnvelopeWeight - 2
            [] pc = "table" ->
                 outer + (Len(CurTable.m) + 1 - dec.tab) * TableWeight
                       + TableWeight - 1
            [] pc = "values" ->
                 outer + (Len(CurTable.m) + 1 - dec.tab) * TableWeight
                       + Len(CurValues.e) + 1 - dec.val
            [] OTHER -> 0

\* C15: every run reaches its end: while it is under way a step can always
\* be taken and every step brings the end nearer; the end is a success or
\* a reported failure and nothing in between; while ForEachRow loops, the
\* carry loop runs at most len(dimensions) times per value; and a run that
\* ends as a success has flushed the writer: every row written is in the
\* output and none is left in the buffer.
C15_TerminatesFlushed ==
  /\ [][pc \notin {"idle", "done"} => (Remaining' < Remaining /\ Remaining' >= 0)]_vars
  /\ [](pc \notin {"idle", "done"} =>
          (ENABLED Next /\ exit = "running" /\ stderr = ""))
  /\ [](pc = "done" => exit \in {"ok", "fail"})
  /\ [](pc = "loop" =>
          LET t == gqlResp.Data.Dataset.Table
              counts == [j \in DOMAIN t.Dimensions |-> t.Dimensions[j].Count]
          IN CarrySteps(dimIndices, counts, Len(dimIndices)) <= Len(dimIndices))
  /\ []((pc = "done" /\ exit = "ok") =>
          /\ cw.buf = <<>>
          /\ (doc \in ShapeDocs /\ Positive(CountsOf(doc))) =>
               Len(w) = WritesOf(doc))

C15_Witness ==
  /\ pc = "done" /\ exit = "ok" /\ prog = "streamed"
  /\ cw.buf = <<>>
  /\ Len(ValuesOf(doc)) = 7
  /\ Len(w) = 8

\* -------------------------------------------------------------------- C16
\* C16: the streamed program writes nothing at all, neither header nor
\* data row, for a table without cell values: the values member absent,
\* null, or an empty array.
C16_NoValuesNoOutput ==
  (prog = "streamed" /\ pc # "idle" /\ ValuesOf(doc) = <<>>) => Written = <<>>

\* -------------------------------------------------------------------- C17
\* Every dimension's count is the number of its categories, and at least 1.
Matched(ds) ==
  \A j \in DOMAIN ds :
    ds[j].Count = Len(ds[j].Categories) /\ ds[j].Count >= 1

\* C17: when every dimension's count equals the number of its categories
\* and is at least 1, then each time a row is about to be populated every
\* counter j lies in 0 .. count[j]-1, however many values are fed (more
\* than product(counts) too), and no run ends on a category lookup out of
\* range.
C17_CountersInRange ==
  /\ (prog = "simple" /\ pc = "loop") =>
       LET ds == gqlResp.Data.Dataset.Table.Dimensions
       IN Matched(ds) =>
            /\ Len(dimIndices) = Len(ds)
            /\ \A j \in DOMAIN ds :
                 0 <= dimIndices[j] /\ dimIndices[j] < ds[j].Count
  /\ (prog = "streamed" /\ pc = "values") =>
       (Matched(dims.d) =>
          /\ Len(ti) = Len(dims.d)
          /\ \A j \in DOMAIN dims.d : 0 <= ti[j] /\ ti[j] < dims.d[j].Count)
  /\ (pc = "done" /\ Matched(DimsOf(doc))) => stderr # "index out of range"

C17_Witness ==
  /\ prog = "simple" /\ pc = "loop"
  /\ CountsOf(doc) = <<2, 3>>
  /\ i = 7
  /\ dimIndices = <<0, 1>>

\* -------------------------------------------------------------------- C18
\* C18: with every count >= 1 the counters are all zero again after every
\* product(counts) advances, and the data row of value k (0-based) carries
\* the same category labels as the row of value k mod product(counts).
C18_WrapAround ==
  Positive(CountsOf(doc)) =>
    LET p == Product(CountsOf(doc))
        n == Len(DimsOf(doc))
        rows == DataRows(Written)
    IN /\ (prog = "simple" /\ pc = "loop" /\ i % p = 0) =>
            dimIndices = Zeros(n)
       /\ (prog = "streamed" /\ pc = "values" /\ (dec.val - 1) % p = 0) =>
            ti = Zeros(n)
       /\ \A k \in 0..(Len(rows) - 1) :
            SubSeq(rows[k + 1].fields, 1, n) =
              SubSeq(rows[(k % p) + 1].fields, 1, n)

C18_Witness ==
  /\ prog = "simple" /\ pc = "done" /\ exit = "ok"
  /\ CountsOf(doc) = <<2, 3>>
  /\ Len(DataRows(w)) = 7
  /\ Fields(DataRows(w))[7] = <<"a0", "b0", "16">>
====
